---- MODULE Spec2Model ----
(***************************************************************************)
(* Model of the SketchSphere stroke recogniser (MinimalAIShapeRecognition) *)
(* and of the whiteboard handlers that drive it.                           *)
(*                                                                         *)
(* Numbers.  The JavaScript code works on IEEE doubles; the model works on *)
(* integers in fixed point:                                                *)
(*   - raw and cleaned points, bounding box, width, height: integers;      *)
(*   - smoothed points: units of 1/16 (two passes of weights 1/4,1/2,1/4   *)
(*     of integers are exact multiples of 1/16);                           *)
(*   - lengths (hypot): units of 1/256, rounded down;                      *)
(*   - the ratios aspect, straightness, squareness, circularity and        *)
(*     rightAngleScore: units of 1/1000, rounded down;                     *)
(*   - logits: units of 1/10000; exponentials and probabilities: units of  *)
(*     1/10000.                                                            *)
(* Comparisons of distances and angles against thresholds are made on      *)
(* squared lengths and on dot/cross products, which is exact.              *)
(***************************************************************************)
EXTENDS Integers, Sequences, FiniteSets, TLC

\* the JavaScript null / "no result"
Null == [type |-> "null"]

Abs(x) == IF x < 0 THEN -x ELSE x
Min(a, b) == IF a < b THEN a ELSE b
Max(a, b) == IF a > b THEN a ELSE b
Sign(x) == IF x > 0 THEN 1 ELSE IF x < 0 THEN -1 ELSE 0

\* Newton's iteration from x >= sqrt(v): the floor of the square root of v
RECURSIVE IsqrtIter(_, _)
IsqrtIter(v, x) ==
  LET y == (x + (v \div x)) \div 2
  IN IF y >= x THEN x ELSE IsqrtIter(v, y)

\* floor of the square root of v, 0 <= v < 2^31
Isqrt(v) ==
  IF v < 2 THEN v
  ELSE IF v < 256 THEN IsqrtIter(v, 16)
  ELSE IF v < 4096 THEN IsqrtIter(v, 64)
  ELSE IF v < 65536 THEN IsqrtIter(v, 256)
  ELSE IF v < 1048576 THEN IsqrtIter(v, 1024)
  ELSE IF v < 16777216 THEN IsqrtIter(v, 4096)
  ELSE IF v < 268435456 THEN IsqrtIter(v, 16384)
  ELSE IsqrtIter(v, 46340)

\* squared length of (dx, dy)
Dist2(dx, dy) == dx * dx + dy * dy

\* Math.hypot(dx, dy) on arguments in units of 1/16; result in units of 1/256
Hypot(dx, dy) ==
  LET d2 == Dist2(dx, dy)
  IN IF d2 < 4194304 THEN Isqrt(d2 * 256) ELSE 16 * Isqrt(d2)

\* the sequence s with its elements computed (a function written
\* [j \in 1..n |-> e] is otherwise recomputed at each use)
Tup(s) == SubSeq(s, 1, Len(s))

\* the least of acc and s[i], s[i+1], ...
SeqMin(s, i, acc) ==
  LET rest == {s[j] : j \in i..Len(s)} \cup {acc}
  IN CHOOSE x \in rest : \A y \in rest : x <= y

\* the greatest of acc and s[i], s[i+1], ...
SeqMax(s, i, acc) ==
  LET rest == {s[j] : j \in i..Len(s)} \cup {acc}
  IN CHOOSE x \in rest : \A y \in rest : y <= x

RECURSIVE SeqSum(_, _)
SeqSum(s, i) == IF i > Len(s) THEN 0 ELSE s[i] + SeqSum(s, i + 1)

----------------------------------------------------------------------------
(* Configuration constants of the recogniser *)

MinPoints == 15          \* minimum raw points
MinCleanPoints == 10     \* minimum cleaned points
NoiseFloor == 2          \* a point is kept when farther than this from the last kept
MinFootprint == 15       \* minimum width and height of a closed stroke
MinSegment == 5          \* minimum segment length in corner detection
ConfidenceGate == 6000   \* 0.6 in units of 1/10000
HeuristicConfidence == 5000 \* 0.5 in units of 1/10000

shapeClasses ==
  <<"line", "circle", "rectangle", "square", "triangle", "hexagon", "pentagon">>

----------------------------------------------------------------------------
(* extractFeatures *)

\* a cleaning loop that compares each point with the raw point before it
RECURSIVE cleanIndices_PrevRaw(_, _, _)
cleanIndices_PrevRaw(points, i, kept) ==
  IF i > Len(points) THEN kept
  ELSE LET last == points[i - 1]
           d2 == Dist2(points[i][1] - last[1], points[i][2] - last[2])
       IN IF d2 > NoiseFloor * NoiseFloor /\ kept[Len(kept)] < i
            THEN cleanIndices_PrevRaw(points, i + 1, Append(kept, i))
            ELSE cleanIndices_PrevRaw(points, i + 1, kept)

\* indices (1-based) of the raw points that the cleaning loop keeps
RECURSIVE cleanIndices(_, _, _)
cleanIndices(points, i, kept) ==
  IF i > Len(points) THEN kept
  ELSE LET last == points[kept[Len(kept)]]
           d2 == Dist2(points[i][1] - last[1], points[i][2] - last[2])
       IN IF d2 > NoiseFloor * NoiseFloor
            THEN cleanIndices(points, i + 1, Append(kept, i))
            ELSE cleanIndices(points, i + 1, kept)

cleanPoints(points) ==
  LET idx == cleanIndices(points, 2, <<1>>)
  IN Tup([j \in 1..Len(idx) |-> points[idx[j]]])

\* startEndDist < Math.min(width, height) * 0.15
closedTest(clean, width, height) ==
  LET n == Len(clean)
      d2 == Dist2(clean[1][1] - clean[n][1], clean[1][2] - clean[n][2])
      m == Min(width, height)
  IN IF 400 * d2 < 9 * m * m THEN 1 ELSE 0

\* a smoothing pass over the adjacent points instead of those 2 away
smoothPass_Adjacent(s, isClosed) ==
  LET n == Len(s)
  IN Tup([j \in 1..n |->
        LET i == j - 1
            pi == IF isClosed = 1 THEN (i - 1 + n) % n ELSE Max(0, i - 1)
            ni == IF isClosed = 1 THEN (i + 1) % n ELSE Min(n - 1, i + 1)
            prev == s[pi + 1]
            next == s[ni + 1]
        IN <<prev[1] + 2 * s[j][1] + next[1], prev[2] + 2 * s[j][2] + next[2]>>])

\* one smoothing pass; the result is 4 times the weighted average
smoothPass(s, isClosed) ==
  LET n == Len(s)
  IN Tup([j \in 1..n |->
        LET i == j - 1
            pi == IF isClosed = 1 THEN (i - 2 + n) % n ELSE Max(0, i - 2)
            ni == IF isClosed = 1 THEN (i + 2) % n ELSE Min(n - 1, i + 2)
            prev == s[pi + 1]
            next == s[ni + 1]
        IN <<prev[1] + 2 * s[j][1] + next[1], prev[2] + 2 * s[j][2] + next[2]>>])

\* two passes: smoothed points in units of 1/16
smooth(clean, isClosed) == smoothPass(smoothPass(clean, isClosed), isClosed)

lookaheadOf(n) == Max(2, n \div 20)

\* the corner loop without its test of the segment lengths
RECURSIVE cornerLoop_AnyLength(_, _, _, _, _, _)
cornerLoop_AnyLength(sm, i, stop, look, minSide, acc) ==
  IF i >= stop THEN acc
  ELSE
    LET n == Len(sm)
        p == sm[i + 1]
        a == sm[i - look + 1]
        b == sm[((i + look) % n) + 1]
        dx1 == p[1] - a[1]
        dy1 == p[2] - a[2]
        dx2 == b[1] - p[1]
        dy2 == b[2] - p[2]
        dot == dx1 * dx2 + dy1 * dy2
        cross == dx1 * dy2 - dy1 * dx2
        sharp == Abs(cross) > Abs(dot)
        isDistinct ==
          \A k \in 1..Len(acc) :
             LET q == sm[acc[k].idx + 1]
             IN ~(36 * Dist2(p[1] - q[1], p[2] - q[2]) < 256 * minSide * minSide)
    IN IF sharp /\ isDistinct
         THEN cornerLoop_AnyLength(sm, i + 1, stop, look, minSide,
                         Append(acc, [idx |-> i, dot |-> dot, cross |-> cross]))
         ELSE cornerLoop_AnyLength(sm, i + 1, stop, look, minSide, acc)

\* the corner loop without its test of the distance to the accepted corners
RECURSIVE cornerLoop_NoSpacing(_, _, _, _, _, _)
cornerLoop_NoSpacing(sm, i, stop, look, minSide, acc) ==
  IF i >= stop THEN acc
  ELSE
    LET n == Len(sm)
        p == sm[i + 1]
        a == sm[i - look + 1]
        b == sm[((i + look) % n) + 1]
        dx1 == p[1] - a[1]
        dy1 == p[2] - a[2]
        dx2 == b[1] - p[1]
        dy2 == b[2] - p[2]
        tooShort == \/ Dist2(dx1, dy1) < MinSegment * MinSegment * 256
                    \/ Dist2(dx2, dy2) < MinSegment * MinSegment * 256
        dot == dx1 * dx2 + dy1 * dy2
        cross == dx1 * dy2 - dy1 * dx2
        sharp == Abs(cross) > Abs(dot)
    IN IF (~tooShort) /\ sharp /\ Len(acc) < n
         THEN cornerLoop_NoSpacing(sm, i + 1, stop, look, minSide,
                         Append(acc, [idx |-> i, dot |-> dot, cross |-> cross]))
         ELSE cornerLoop_NoSpacing(sm, i + 1, stop, look, minSide, acc)

\* the corner loop from index i (0-based) on; acc is the list of accepted
\* corners, each [idx, dot, cross] with idx 0-based
RECURSIVE cornerLoop(_, _, _, _, _, _)
cornerLoop(sm, i, stop, look, minSide, acc) ==
  IF i >= stop THEN acc
  ELSE
    LET n == Len(sm)
        p == sm[i + 1]
        a == sm[i - look + 1]
        b == sm[((i + look) % n) + 1]
        dx1 == p[1] - a[1]
        dy1 == p[2] - a[2]
        dx2 == b[1] - p[1]
        dy2 == b[2] - p[2]
        tooShort == \/ Dist2(dx1, dy1) < MinSegment * MinSegment * 256
                    \/ Dist2(dx2, dy2) < MinSegment * MinSegment * 256
        dot == dx1 * dx2 + dy1 * dy2
        cross == dx1 * dy2 - dy1 * dx2
        \* pi/4 < |angle| < 3*pi/4  <=>  |sin| > |cos|
        sharp == Abs(cross) > Abs(dot)
        isDistinct ==
          \A k \in 1..Len(acc) :
             LET q == sm[acc[k].idx + 1]
             IN ~(36 * Dist2(p[1] - q[1], p[2] - q[2]) < 256 * minSide * minSide)
    IN IF (~tooShort) /\ sharp /\ isDistinct
         THEN cornerLoop(sm, i + 1, stop, look, minSide,
                         Append(acc, [idx |-> i, dot |-> dot, cross |-> cross]))
         ELSE cornerLoop(sm, i + 1, stop, look, minSide, acc)

detectCorners(sm, isClosed, width, height) ==
  LET n == Len(sm)
      endLimit == IF isClosed = 1 THEN n ELSE n - 1
      look == lookaheadOf(n)
  IN cornerLoop(sm, look, endLimit - look, look, Min(width, height), <<>>)

\* sum of Math.hypot over consecutive smoothed points, units of 1/256
RECURSIVE pathLengthFrom(_, _)
pathLengthFrom(sm, i) ==
  IF i > Len(sm) THEN 0
  ELSE Hypot(sm[i][1] - sm[i - 1][1], sm[i][2] - sm[i - 1][2])
         + pathLengthFrom(sm, i + 1)

\* circularity in units of 1/1000
circularityOf(sm, isClosed, minX, maxX, minY, maxY) ==
  LET width == maxX - minX
      height == maxY - minY
      centerX == 8 * (minX + maxX)           \* units of 1/16
      centerY == 8 * (minY + maxY)
      avgRadius == 64 * (width + height)     \* units of 1/256
      devs == Tup([j \in 1..Len(sm) |->
                 Abs(Hypot(sm[j][1] - centerX, sm[j][2] - centerY) - avgRadius)])
      radiusVariance == SeqSum(devs, 1) \div Len(sm)
  IN IF isClosed = 1 /\ avgRadius > 0
       THEN 1000 - ((radiusVariance * 1000) \div avgRadius)
       ELSE 0

\* convexity and right-angle score over the corner vertices
RECURSIVE convexLoop(_, _, _, _, _)
convexLoop(verts, i, lastSign, convex, right) ==
  LET m == Len(verts)
  IN IF i >= m THEN [isConvex |-> convex, rightCount |-> right]
     ELSE
       LET a == verts[i + 1]
           b == verts[((i + 1) % m) + 1]
           c == verts[((i + 2) % m) + 1]
           abx == b[1] - a[1]
           aby == b[2] - a[2]
           bcx == c[1] - b[1]
           bcy == c[2] - b[2]
           cross == abx * bcy - aby * bcx
           sign == Sign(cross)
           newLast == IF lastSign = 0 THEN sign ELSE lastSign
           newConvex == IF lastSign # 0 /\ sign # 0 /\ sign # lastSign
                          THEN 0 ELSE convex
           dot == abx * bcx + aby * bcy
           mag1 == Isqrt(Dist2(abx, aby))
           mag2 == Isqrt(Dist2(bcx, bcy))
           \* |cos| < 0.2
           isRight == mag1 > 0 /\ mag2 > 0 /\ 5 * Abs(dot) < mag1 * mag2
       IN convexLoop(verts, i + 1, newLast, newConvex,
                     IF isRight THEN right + 1 ELSE right)

\* pathLength / straightDistance in units of 1/1000
straightnessOf(pathLength, straightDistance) ==
  IF straightDistance > 0 THEN (1000 * pathLength) \div straightDistance ELSE 1000

\* isConvex and the number of right angles, counted only on a closed
\* stroke with at least three corners
convexityOf(smoothed, isClosed, found) ==
  IF isClosed = 1 /\ Len(found) >= 3
    THEN convexLoop(Tup([k \in 1..Len(found) |-> smoothed[found[k].idx + 1]]),
                    0, 0, 1, 0)
    ELSE [isConvex |-> 1, rightCount |-> 0]

\* the record with aspect taken as the shorter side over the longer one
featureRecord_ShortOverLong(minX, maxX, minY, maxY, isClosed, smoothed, found, cv) ==
  LET width == maxX - minX
      height == maxY - minY
      n == Len(smoothed)
  IN [ width |-> width,
       height |-> height,
       aspect |-> (1000 * Min(width, height)) \div Max(1, Max(width, height)),
       isClosed |-> isClosed,
       straightness |->
         straightnessOf(pathLengthFrom(smoothed, 2),
                        Hypot(smoothed[n][1] - smoothed[1][1],
                              smoothed[n][2] - smoothed[1][2])),
       squareness |-> 1000 - ((1000 * Abs(width - height)) \div Max(width, height)),
       minX |-> minX,
       minY |-> minY,
       maxX |-> maxX,
       maxY |-> maxY,
       corners |-> Len(found),
       circularity |-> circularityOf(smoothed, isClosed, minX, maxX, minY, maxY),
       cornerAngles |-> Tup([k \in 1..Len(found) |->
                           [dot |-> found[k].dot, cross |-> found[k].cross]]),
       diagonal |-> Isqrt(256 * Dist2(width, height)),
       isConvex |-> cv.isConvex,
       rightAngleScore |-> IF isClosed = 1 /\ Len(found) >= 3
                             THEN (1000 * cv.rightCount) \div Len(found)
                             ELSE 0,
       startX |-> smoothed[1][1],
       startY |-> smoothed[1][2],
       endX |-> smoothed[n][1],
       endY |-> smoothed[n][2] ]

\* the record that extractFeatures returns
featureRecord(minX, maxX, minY, maxY, isClosed, smoothed, found, cv) ==
  LET width == maxX - minX
      height == maxY - minY
      n == Len(smoothed)
  IN [ width |-> width,
       height |-> height,
       aspect |-> (1000 * Max(width, height)) \div Max(1, Min(width, height)),
       isClosed |-> isClosed,
       straightness |->
         straightnessOf(pathLengthFrom(smoothed, 2),
                        Hypot(smoothed[n][1] - smoothed[1][1],
                              smoothed[n][2] - smoothed[1][2])),
       squareness |-> 1000 - ((1000 * Abs(width - height)) \div Max(width, height)),
       minX |-> minX,
       minY |-> minY,
       maxX |-> maxX,
       maxY |-> maxY,
       corners |-> Len(found),
       circularity |-> circularityOf(smoothed, isClosed, minX, maxX, minY, maxY),
       cornerAngles |-> Tup([k \in 1..Len(found) |->
                           [dot |-> found[k].dot, cross |-> found[k].cross]]),
       diagonal |-> Isqrt(256 * Dist2(width, height)),
       isConvex |-> cv.isConvex,
       rightAngleScore |-> IF isClosed = 1 /\ Len(found) >= 3
                             THEN (1000 * cv.rightCount) \div Len(found)
                             ELSE 0,
       startX |-> smoothed[1][1],
       startY |-> smoothed[1][2],
       endX |-> smoothed[n][1],
       endY |-> smoothed[n][2] ]

\* extractFeatures once the corners are found
featuresOfCorners(minX, maxX, minY, maxY, isClosed, smoothed, found) ==
  featureRecord(minX, maxX, minY, maxY, isClosed, smoothed, found,
                convexityOf(smoothed, isClosed, found))

\* extractFeatures once the points are smoothed
featuresOfSmoothed(minX, maxX, minY, maxY, isClosed, smoothed) ==
  featuresOfCorners(minX, maxX, minY, maxY, isClosed, smoothed,
                    detectCorners(smoothed, isClosed, maxX - minX, maxY - minY))

\* a recogniser that accepts closed strokes of any footprint
featuresOfClosed_NoFootprint(clean, minX, maxX, minY, maxY, isClosed) ==
  featuresOfSmoothed(minX, maxX, minY, maxY, isClosed, smooth(clean, isClosed))

\* extractFeatures once isClosed is known
featuresOfClosed(clean, minX, maxX, minY, maxY, isClosed) ==
  IF isClosed = 1 /\ (maxX - minX < MinFootprint \/ maxY - minY < MinFootprint)
    THEN Null
    ELSE featuresOfSmoothed(minX, maxX, minY, maxY, isClosed,
                            smooth(clean, isClosed))

\* extractFeatures once the bounding box is known
featuresOfBox(clean, minX, maxX, minY, maxY) ==
  featuresOfClosed(clean, minX, maxX, minY, maxY,
                   closedTest(clean, maxX - minX, maxY - minY))

\* extractFeatures once the x and y coordinates are separated
featuresOfCoords(clean, xs, ys) ==
  featuresOfBox(clean, SeqMin(xs, 1, xs[1]), SeqMax(xs, 1, xs[1]),
                SeqMin(ys, 1, ys[1]), SeqMax(ys, 1, ys[1]))

\* extractFeatures once the points are cleaned
featuresOfClean(clean) ==
  IF Len(clean) < MinCleanPoints THEN Null
  ELSE featuresOfCoords(clean,
                        Tup([j \in 1..Len(clean) |-> clean[j][1]]),
                        Tup([j \in 1..Len(clean) |-> clean[j][2]]))

\* a recogniser that asks of the raw stroke what it asks of the cleaned one
extractFeatures_TenPoints(points) ==
  IF points = Null THEN Null
  ELSE IF Len(points) < MinCleanPoints THEN Null
  ELSE featuresOfClean(cleanPoints(points))

extractFeatures(points) ==
  IF points = Null THEN Null
  ELSE IF Len(points) < MinPoints THEN Null
  ELSE featuresOfClean(cleanPoints(points))

----------------------------------------------------------------------------
(* predictProbs *)

IsConvexTerm(f) == IF f.isConvex = 1 THEN 5000 ELSE -5000

\* the seven linear scores, in units of 1/10000
zLine(f) ==
  30 * (f.aspect - 1000)
  + 20 * (2500 - Min(f.straightness, 3000))
  + (IF f.isClosed = 1 THEN -30000 ELSE 20000)
  - 15000 * f.corners
  - 25 * f.circularity

\* a circle score that rewards a second corner by more than it costs
zCircle_Bonus9(f) ==
  18000 * f.isClosed
  + 25 * f.circularity
  + 8 * f.squareness
  - 8 * (f.aspect - 1000)
  - 50000 * Max(0, f.corners)
  - 8000 * Abs(f.corners)
  - (IF f.corners > 1 THEN -90000 ELSE 0)

zCircle(f) ==
  18000 * f.isClosed
  + 25 * f.circularity
  + 8 * f.squareness
  - 8 * (f.aspect - 1000)
  - 50000 * Max(0, f.corners)
  - 8000 * Abs(f.corners)
  - (IF f.corners > 1 THEN -30000 ELSE 0)

zTriangle(f) ==
  22000 * f.isClosed
  + (IF f.corners = 3 THEN 80000 ELSE 0)
  - 50000 * Abs(3 - f.corners)
  - 20 * f.circularity
  - 10 * f.squareness
  + IsConvexTerm(f)

zSquare(f) ==
  15000 * f.isClosed
  + (IF f.corners = 4 THEN 35000 ELSE 0)
  + 30 * f.squareness
  + (IF f.aspect <= 1200 THEN 30 * (1000 - Abs(f.aspect - 1000)) ELSE -30000)
  - 30 * f.circularity
  + 15 * f.rightAngleScore
  + IsConvexTerm(f)

zRect(f) ==
  15000 * f.isClosed
  + (IF f.corners = 4 THEN 35000 ELSE 0)
  + (IF f.squareness < 800 THEN 20000 ELSE -20000)
  + (IF f.aspect > 1300 THEN 20 * Min(f.aspect - 1000, 3000) ELSE -30000)
  - 30 * f.circularity
  + 15 * f.rightAngleScore
  + IsConvexTerm(f)

zHexagon(f) ==
  15000 * f.isClosed
  + (IF f.corners = 6 THEN 45000 ELSE 0)
  - 30000 * Abs(6 - f.corners)
  + 5 * f.circularity
  - 5 * Abs(f.aspect - 1000)

zPentagon(f) ==
  15000 * f.isClosed
  + (IF f.corners = 5 THEN 45000 ELSE 0)
  - 30000 * Abs(5 - f.corners)
  + 5 * f.circularity
  - 5 * Abs(f.aspect - 1000)

logitsOf(f) ==
  <<zLine(f), zCircle(f), zRect(f), zSquare(f), zTriangle(f), zHexagon(f), zPentagon(f)>>

\* 10000 * e^(-k) for k = 0..9
ExpTable == <<10000, 3679, 1353, 498, 183, 67, 25, 9, 3, 1>>

\* Horner evaluation of the series of e^(-r/10000), 0 <= r < 10000
RECURSIVE ExpFrac(_, _, _)
ExpFrac(r, j, h) ==
  IF j = 0 THEN h ELSE ExpFrac(r, j - 1, 10000 - ((r * h) \div (10000 * j)))

\* Math.exp(z - maxZ) for d = maxZ - z >= 0 in units of 1/10000
ExpNeg(d) ==
  LET k == d \div 10000
  IN IF k >= 10 THEN 0
     ELSE (ExpTable[k + 1] * ExpFrac(d % 10000, 8, 10000)) \div 10000

softmax(logits) ==
  LET maxZ == SeqMax(logits, 1, logits[1])
      exps == Tup([i \in 1..Len(logits) |-> ExpNeg(maxZ - logits[i])])
      sum == SeqSum(exps, 1)
  IN Tup([i \in 1..Len(logits) |-> (10000 * exps[i]) \div Max(1, sum)])

\* a Classifier that answers from a largest probability of one half
predictProbs_HalfGate(f) ==
  LET probs == softmax(logitsOf(f))
      maxProb == SeqMax(probs, 1, probs[1])
  IN IF maxProb < 5000 THEN Null ELSE probs

\* a Classifier that always answers
predictProbs_NoGate(f) == softmax(logitsOf(f))

predictProbs(f) ==
  LET probs == softmax(logitsOf(f))
      maxProb == SeqMax(probs, 1, probs[1])
  IN IF maxProb < ConfidenceGate THEN Null ELSE probs

\* probs.indexOf(Math.max(...probs)), 1-based
indexOfMax(probs) ==
  LET m == SeqMax(probs, 1, probs[1])
  IN CHOOSE i \in 1..Len(probs) :
       probs[i] = m /\ \A j \in 1..(i - 1) : probs[j] # m

----------------------------------------------------------------------------
(* convertToShape and heuristicRecognize; coordinates in units of 1/16 *)

\* 10000 * cos and sin of i * 2*pi/6, i = 0..5
HexCos == <<10000, 5000, -5000, -10000, -5000, 5000>>
HexSin == <<0, 8660, 8660, 0, -8660, -8660>>
\* 10000 * cos and sin of i * 2*pi/5 - pi/2, i = 0..4
PentCos == <<0, 9511, 5878, -5878, -9511>>
PentSin == <<-10000, -3090, 8090, 8090, -3090>>

\* [cx + r*cos(a0), cy + r*sin(a0), cx + r*cos(a1), ...]
polygonPoints(centerX, centerY, radius, cosT, sinT) ==
  Tup([j \in 1..(2 * Len(cosT)) |->
         IF j % 2 = 1
           THEN centerX + ((radius * cosT[(j + 1) \div 2]) \div 10000)
           ELSE centerY + ((radius * sinT[j \div 2]) \div 10000)])

lineShape(f) ==
  [type |-> "line", points |-> <<f.startX, f.startY, f.endX, f.endY>>]

\* a circle whose radius is the mean of the half sides
circleShape_MeanRadius(f) ==
  [type |-> "circle",
   x |-> 16 * f.minX + 8 * f.width,
   y |-> 16 * f.minY + 8 * f.height,
   radius |-> 4 * (f.width + f.height)]

circleShape(f) ==
  [type |-> "circle",
   x |-> 16 * f.minX + 8 * f.width,
   y |-> 16 * f.minY + 8 * f.height,
   radius |-> 8 * Min(f.width, f.height)]

squareShape(f) ==
  LET side == Min(f.width, f.height)
  IN [type |-> "square",
      x |-> 16 * f.minX + 8 * (f.width - side),
      y |-> 16 * f.minY + 8 * (f.height - side),
      side |-> 16 * side]

triangleShape(f) ==
  [type |-> "triangle",
   points |-> <<16 * f.minX, 16 * f.maxY,
                16 * f.maxX, 16 * f.maxY,
                8 * (f.minX + f.maxX), 16 * f.minY>>]

hexagonShape(f) ==
  [type |-> "hexagon",
   points |-> polygonPoints(16 * f.minX + 8 * f.width, 16 * f.minY + 8 * f.height,
                            8 * Min(f.width, f.height), HexCos, HexSin)]

pentagonShape(f) ==
  [type |-> "pentagon",
   points |-> polygonPoints(16 * f.minX + 8 * f.width, 16 * f.minY + 8 * f.height,
                            8 * Min(f.width, f.height), PentCos, PentSin)]

rectangleShape(f) ==
  [type |-> "rectangle",
   x |-> 16 * f.minX, y |-> 16 * f.minY,
   width |-> 16 * f.width, height |-> 16 * f.height]

\* a shape builder without the square branch
shapeOf_NoSquare(f, type) ==
  IF type = "line" THEN lineShape(f)
  ELSE IF type = "circle" THEN circleShape(f)
  ELSE IF type = "triangle" THEN triangleShape(f)
  ELSE IF type = "hexagon" THEN hexagonShape(f)
  ELSE IF type = "pentagon" THEN pentagonShape(f)
  ELSE rectangleShape(f)

\* the body of convertToShape after its call of extractFeatures
shapeOf(f, type) ==
  IF type = "line" THEN lineShape(f)
  ELSE IF type = "circle" THEN circleShape(f)
  ELSE IF type = "square" THEN squareShape(f)
  ELSE IF type = "triangle" THEN triangleShape(f)
  ELSE IF type = "hexagon" THEN hexagonShape(f)
  ELSE IF type = "pentagon" THEN pentagonShape(f)
  ELSE rectangleShape(f)

\* the class the rules of heuristicRecognize select for a Feature Record
heuristicClass(f) ==
  IF f.isClosed = 0 /\ f.aspect > 4000 /\ f.straightness < 1500 /\ f.corners < 2
    THEN "line"
  ELSE IF f.isClosed = 0 THEN "null"
  ELSE IF f.corners = 3 /\ f.circularity < 500 /\ f.isConvex = 1
    THEN "triangle"
  ELSE IF /\ f.corners = 4 /\ f.circularity < 400
          /\ f.rightAngleScore > 600 /\ f.aspect <= 1200 /\ f.squareness > 900
    THEN "square"
  ELSE IF /\ f.corners = 4 /\ f.circularity < 400
          /\ f.rightAngleScore > 600 /\ (f.aspect > 1300 \/ f.squareness < 800)
    THEN "rectangle"
  ELSE IF f.corners = 5 /\ f.circularity < 800 /\ f.isConvex = 1
    THEN "pentagon"
  ELSE IF f.corners = 6 /\ f.circularity < 800 /\ f.isConvex = 1
    THEN "hexagon"
  ELSE IF f.circularity > 850 /\ f.corners < 2
    THEN "circle"
  ELSE "null"

\* heuristicRecognize with its rectangle test reduced to the right-angle score
heuristicRules_LooseRectangle(f) ==
  LET shut == f.isClosed = 1
      quad == shut /\ f.corners = 4 /\ f.circularity < 400
  IN  {c \in {"line"} :
         f.isClosed = 0 /\ f.aspect > 4000 /\ f.straightness < 1500 /\ f.corners < 2}
      \cup {c \in {"triangle"} :
              shut /\ f.corners = 3 /\ f.circularity < 500 /\ f.isConvex = 1}
      \cup {c \in {"square"} :
              quad /\ f.rightAngleScore > 600 /\ f.aspect <= 1200 /\ f.squareness > 900}
      \cup {c \in {"rectangle"} : quad /\ f.rightAngleScore > 600}
      \cup {c \in {"pentagon"} :
              shut /\ f.corners = 5 /\ f.circularity < 800 /\ f.isConvex = 1}
      \cup {c \in {"hexagon"} :
              shut /\ f.corners = 6 /\ f.circularity < 800 /\ f.isConvex = 1}
      \cup {c \in {"circle"} : shut /\ f.circularity > 850 /\ f.corners < 2}

\* the rules of heuristicRecognize whose conditions hold for a Feature
\* Record, each condition taken on its own with the blocks that enclose it
heuristicRules(f) ==
  LET shut == f.isClosed = 1
      quad == shut /\ f.corners = 4 /\ f.circularity < 400
  IN  {c \in {"line"} :
         f.isClosed = 0 /\ f.aspect > 4000 /\ f.straightness < 1500 /\ f.corners < 2}
      \cup {c \in {"triangle"} :
              shut /\ f.corners = 3 /\ f.circularity < 500 /\ f.isConvex = 1}
      \cup {c \in {"square"} :
              quad /\ f.rightAngleScore > 600 /\ f.aspect <= 1200 /\ f.squareness > 900}
      \cup {c \in {"rectangle"} :
              quad /\ f.rightAngleScore > 600
                   /\ (f.aspect > 1300 \/ f.squareness < 800)}
      \cup {c \in {"pentagon"} :
              shut /\ f.corners = 5 /\ f.circularity < 800 /\ f.isConvex = 1}
      \cup {c \in {"hexagon"} :
              shut /\ f.corners = 6 /\ f.circularity < 800 /\ f.isConvex = 1}
      \cup {c \in {"circle"} : shut /\ f.circularity > 850 /\ f.corners < 2}

\* the body of heuristicRecognize after its call of extractFeatures
heuristicShape(f) ==
  IF f = Null THEN Null
  ELSE LET c == heuristicClass(f)
       IN IF c = "line" THEN lineShape(f)
          ELSE IF c = "triangle" THEN triangleShape(f)
          ELSE IF c = "square" THEN squareShape(f)
          ELSE IF c = "rectangle" THEN rectangleShape(f)
          ELSE IF c = "pentagon" THEN pentagonShape(f)
          ELSE IF c = "hexagon" THEN hexagonShape(f)
          ELSE IF c = "circle" THEN circleShape(f)
          ELSE Null

----------------------------------------------------------------------------
(* The methods with the list of the calls they make.  A method yields      *)
(* [ret, calls]: its return value and the calls made, itself first, each   *)
(* call as [fn, ok] with ok false when the call returned null.             *)

Call(fn, value) == [fn |-> fn, ok |-> value # Null]

\* heuristicRecognize once its call of extractFeatures has returned f
heuristicFrom(f) ==
  LET h == heuristicShape(f)
  IN [ret |-> h,
      calls |-> <<Call("heuristicRecognize", h), Call("extractFeatures", f)>>]

heuristicRun(points) == heuristicFrom(extractFeatures(points))

heuristicRecognize(points) == heuristicRun(points).ret

\* convertToShape once its call of extractFeatures has returned f
convertFrom(f, type) ==
  LET shape == IF f = Null THEN Null ELSE shapeOf(f, type)
  IN [ret |-> shape,
      calls |-> <<Call("convertToShape", shape), Call("extractFeatures", f)>>]

convertRun(points, type) == convertFrom(extractFeatures(points), type)

convertToShape(points, type) == convertRun(points, type).ret

\* return h ? { type: h.type, confidence: 0.5, features: h } : null
fallbackFrom(h, before) ==
  [ret |-> IF h.ret # Null
             THEN [type |-> h.ret.type, confidence |-> HeuristicConfidence,
                   features |-> h.ret]
             ELSE Null,
   calls |-> before \o h.calls]

\* const h = this.heuristicRecognize(points); return ...
fallback(points, before) == fallbackFrom(heuristicRun(points), before)

\* features = convertToShape(points, type) || heuristicRecognize(points);
\* return { type, confidence, features }
decidedFrom(type, confidence, conv, h, before) ==
  IF conv.ret # Null
    THEN [ret |-> [type |-> type, confidence |-> confidence, features |-> conv.ret],
          calls |-> before \o conv.calls]
    ELSE [ret |-> [type |-> type, confidence |-> confidence, features |-> h.ret],
          calls |-> before \o conv.calls \o h.calls]

\* recognizeShape once the class of the largest probability is found
decided(points, probs, idx, before) ==
  decidedFrom(shapeClasses[idx], probs[idx],
              convertRun(points, shapeClasses[idx]), heuristicRun(points), before)

\* a recogniser that gives up as soon as the Classifier declines
recognizeWithProbs_NoFallback(points, probs, before) ==
  LET c2 == before \o <<Call("predictProbs", probs)>>
  IN IF probs = Null THEN [ret |-> Null, calls |-> c2]
     ELSE decided(points, probs, indexOfMax(probs), c2)

\* recognizeShape once predictProbs has returned
recognizeWithProbs(points, probs, before) ==
  LET c2 == before \o <<Call("predictProbs", probs)>>
  IN IF probs = Null THEN fallback(points, c2)
     ELSE decided(points, probs, indexOfMax(probs), c2)

\* recognizeShape once extractFeatures has returned
recognizeWithFeatures(points, f) ==
  IF f = Null THEN fallback(points, <<Call("extractFeatures", f)>>)
  ELSE recognizeWithProbs(points, predictProbs(f), <<Call("extractFeatures", f)>>)

\* recognizeShape(points) on a recogniser whose isReady is ready: the value
\* returned and the calls made
recognizeRun(ready, points) ==
  IF ~ready THEN fallback(points, <<>>)
  ELSE recognizeWithFeatures(points, extractFeatures(points))

\* recognizeShape(points) on a recogniser whose isReady is ready
recognizeShape(ready, points) == recognizeRun(ready, points).ret

----------------------------------------------------------------------------
(* The strokes given to the recogniser: the pointer walks a figure (a list  *)
(* of vertices on a 12 x 12 grid) scaled by k, leaving seg samples on each  *)
(* edge and the last vertex at the end.                                     *)

Figures ==
  << [name |-> "line",
      verts |-> <<<<0, 0>>, <<2, 0>>, <<4, 0>>, <<6, 1>>, <<8, 1>>, <<10, 1>>, <<12, 1>>>>],
     [name |-> "ell",
      verts |-> <<<<0, 0>>, <<0, 6>>, <<0, 12>>, <<6, 12>>, <<12, 12>>>>],
     [name |-> "zig",
      verts |-> <<<<0, 0>>, <<4, 8>>, <<8, 0>>, <<12, 8>>>>],
     [name |-> "square",
      verts |-> <<<<0, 0>>, <<12, 0>>, <<12, 12>>, <<0, 12>>, <<0, 0>>>>],
     [name |-> "rect",
      verts |-> <<<<0, 0>>, <<12, 0>>, <<12, 5>>, <<0, 5>>, <<0, 0>>>>],
     [name |-> "tri",
      verts |-> <<<<0, 12>>, <<12, 12>>, <<6, 0>>, <<0, 12>>>>],
     [name |-> "pent",
      verts |-> <<<<6, 0>>, <<12, 4>>, <<10, 12>>, <<2, 12>>, <<0, 4>>, <<6, 0>>>>],
     [name |-> "hex",
      verts |-> <<<<3, 0>>, <<9, 0>>, <<12, 5>>, <<9, 10>>, <<3, 10>>, <<0, 5>>, <<3, 0>>>>],
     [name |-> "oct",
      verts |-> <<<<4, 0>>, <<8, 0>>, <<12, 4>>, <<12, 8>>, <<8, 12>>, <<4, 12>>,
                  <<0, 8>>, <<0, 4>>, <<4, 0>>>>],
     [name |-> "bow",
      verts |-> <<<<0, 0>>, <<12, 12>>, <<12, 0>>, <<0, 12>>, <<0, 0>>>>],
     [name |-> "gapsq",
      verts |-> <<<<0, 0>>, <<12, 0>>, <<12, 12>>, <<0, 12>>, <<0, 3>>>>],
     [name |-> "zag",
      verts |-> <<<<0, 0>>, <<3, 4>>, <<6, 0>>, <<9, 4>>, <<12, 0>>>>],
     [name |-> "flat",
      verts |-> <<<<0, 0>>, <<3, 0>>, <<6, 0>>, <<9, 0>>, <<12, 0>>>>] >>

MaxScale == 6     \* largest scale factor k: figures up to 72 x 72
MaxSeg == 6       \* largest number of samples per edge
MinSeg == 2       \* smallest number of samples per edge

\* the samples on the edges from vertex j on
RECURSIVE pathFrom(_, _, _, _)
pathFrom(verts, j, seg, k) ==
  IF j >= Len(verts) THEN <<<<k * verts[j][1], k * verts[j][2]>>>>
  ELSE LET a == verts[j]
           b == verts[j + 1]
       IN Tup([t \in 1..seg |->
                 <<k * a[1] + ((k * (b[1] - a[1]) * (t - 1)) \div seg),
                   k * a[2] + ((k * (b[2] - a[2]) * (t - 1)) \div seg)>>])
          \o pathFrom(verts, j + 1, seg, k)

StrokeOf(fig, seg, k) == pathFrom(Figures[fig].verts, 1, seg, k)

\* The strokes are numbered: figure fig in 1..Len(Figures), seg samples per
\* edge and scale k give one stroke each; the drawing surface can also hand
\* over an empty stroke (EmptyStroke) or no stroke at all (MissingStroke).
NumSeg == MaxSeg - MinSeg + 1
NumDrawn == Len(Figures) * NumSeg * MaxScale
EmptyStroke == NumDrawn + 1
MissingStroke == NumDrawn + 2
\* the point at distance t along the outline of the axis-aligned square of
\* side 200 with a corner at (0,0)
squarePoint(t) ==
  IF t < 200 THEN <<t, 0>>
  ELSE IF t < 400 THEN <<200, t - 200>>
  ELSE IF t < 600 THEN <<600 - t, 200>>
  ELSE <<0, 800 - t>>

\* the outline traced once from the point at distance start, a sample every
\* 10 units, ending where it began: 81 points
SquareStroke(start) ==
  Tup([k \in 1..81 |-> squarePoint((start + 10 * (k - 1)) % 800)])

\* where the square strokes start: at a corner, near one, on an edge
SquareStarts == <<0, 20, 30, 100, 170, 190, 200, 350>>

\* 100 * cos(2 * pi * k / 64) to the nearest unit, k = 0..63
CircleCos ==
  <<100, 100, 98, 96, 92, 88, 83, 77, 71, 63, 56, 47, 38, 29, 20, 10,
    0, -10, -20, -29, -38, -47, -56, -63, -71, -77, -83, -88, -92, -96, -98, -100,
    -100, -100, -98, -96, -92, -88, -83, -77, -71, -63, -56, -47, -38, -29, -20, -10,
    0, 10, 20, 29, 38, 47, 56, 63, 71, 77, 83, 88, 92, 96, 98, 100>>

\* 64 points on the circle of radius 100 about (0,0), from the k0-th on
CircleStroke(k0) ==
  Tup([k \in 1..64 |->
         <<CircleCos[((k0 + k - 1) % 64) + 1], CircleCos[((k0 + k + 47) % 64) + 1]>>])

\* where the circle strokes start
CircleStarts == <<0, 5, 16, 37>>

SquareIds == (MissingStroke + 1)..(MissingStroke + Len(SquareStarts))
CircleIds ==
  (MissingStroke + Len(SquareStarts) + 1)
    ..(MissingStroke + Len(SquareStarts) + Len(CircleStarts))

StrokeIds == 1..(MissingStroke + Len(SquareStarts) + Len(CircleStarts))

figOf(id) == ((id - 1) \div (NumSeg * MaxScale)) + 1
segOf(id) == (((id - 1) \div MaxScale) % NumSeg) + MinSeg
scaleOf(id) == ((id - 1) % MaxScale) + 1

PointsOf(id) ==
  IF id = MissingStroke THEN Null
  ELSE IF id = EmptyStroke THEN <<>>
  ELSE IF id \in SquareIds THEN SquareStroke(SquareStarts[id - MissingStroke])
  ELSE IF id \in CircleIds
    THEN CircleStroke(CircleStarts[id - MissingStroke - Len(SquareStarts)])
  ELSE StrokeOf(figOf(id), segOf(id), scaleOf(id))

ConvertTypes == {shapeClasses[i] : i \in 1..Len(shapeClasses)} \cup {"freehand"}

\* The results of the methods on the strokes of the model, computed once.
pointsOn == Tup([id \in StrokeIds |-> PointsOf(id)])
extractFeaturesOn == Tup([id \in StrokeIds |-> extractFeatures(pointsOn[id])])
predictProbsOn ==
  Tup([id \in StrokeIds |->
         IF extractFeaturesOn[id] = Null THEN Null
         ELSE predictProbs(extractFeaturesOn[id])])
heuristicRunOn == Tup([id \in StrokeIds |-> heuristicFrom(extractFeaturesOn[id])])
recognizeRunOn ==
  Tup([id \in StrokeIds |->
         [ready \in BOOLEAN |-> recognizeRun(ready, pointsOn[id])] @@ <<>>])
convertRunOn ==
  Tup([id \in StrokeIds |->
         [t \in ConvertTypes |-> convertFrom(extractFeaturesOn[id], t)] @@ <<>>])

\* Feature Records handed to predictProbs directly: the fields it reads
MaxCorners == 7   \* largest corner count of these records

FeatureGrid ==
  [ isClosed : {0, 1},
    corners : 0..MaxCorners,
    aspect : {1000, 1250, 4000},
    straightness : {1000, 3500},
    squareness : {500, 1000},
    circularity : {0, 900},
    isConvex : {0, 1},
    rightAngleScore : {0, 1000} ]

----------------------------------------------------------------------------
(* State *)

VARIABLES
  isReady,        \* MinimalAIShapeRecognition.isReady
  initPc,         \* initialize(): "idle", "waiting" (timer pending), "done"
  stroke,         \* the completed stroke the caller holds
  feat,           \* the Feature Record the caller holds
  call,           \* the last method call on the recogniser and its return
  hist,           \* earlier returns on this stroke: features (first
                  \* extractFeatures), first (first recognizeShape), sinceInit
                  \* (first recognizeShape since isReady was last assigned)
  aiModelLoaded,  \* Whiteboard state: the AI init effect has completed
  elements,       \* Whiteboard prop: the elements on the board, oldest first
  isDrawing,      \* Whiteboard state
  isErasing,      \* Whiteboard state
  currentTool,    \* Whiteboard state: "pencil", "eraser" or "select"
  mouseUp,        \* what the last handleMouseUp did with the last element
  selectedColor,  \* Whiteboard state: the pen colour
  emitted,        \* the last event the Whiteboard gave to socket.emit
  origin,         \* for each element: who created it ("local" or "remote")
                  \* and how many remote DRAW_MOVE points it has received
  crashed         \* an updater given to setElements has thrown

boardVars == <<aiModelLoaded, elements, isDrawing, isErasing, currentTool, mouseUp,
               selectedColor, emitted, origin, crashed>>

vars == <<isReady, initPc, stroke, feat, call, hist,
          aiModelLoaded, elements, isDrawing, isErasing, currentTool, mouseUp,
          selectedColor, emitted, origin, crashed>>

NoCall ==
  [fn |-> "none", type |-> "", ready |-> FALSE, ret |-> Null, calls |-> <<>>]

\* "nothing recorded yet"
None == [type |-> "none"]
Some(v) == [type |-> "some", ret |-> v]

NoHist == [features |-> None, first |-> None, sinceInit |-> None]

NoMouseUp ==
  [fn |-> "none", freehand |-> FALSE, n |-> 0, ready |-> FALSE,
   submitted |-> FALSE, ret |-> Null]

\* socket.emit(event, {roomId, element | point, color})
Emit(event, element, point, color) ==
  [event |-> event, element |-> element, point |-> point, color |-> color]

NoEvent == Emit("none", Null, Null, "")

\* the Whiteboard's useState initial values and an empty board
InitBoardVars ==
  /\ aiModelLoaded = FALSE
  /\ elements = <<>>
  /\ isDrawing = FALSE
  /\ isErasing = FALSE
  /\ currentTool = "pencil"
  /\ mouseUp = NoMouseUp
  /\ selectedColor = "#000000"
  /\ emitted = NoEvent
  /\ origin = <<>>
  /\ crashed = FALSE

Init ==
  /\ isReady = FALSE
  /\ initPc = "idle"
  /\ stroke \in StrokeIds
  /\ feat = Null
  /\ call = NoCall
  /\ hist = NoHist
  /\ InitBoardVars

\* initialize() up to its await of the 50 ms timer
InitializeStart ==
  /\ initPc # "waiting"
  /\ initPc' = "waiting"
  /\ UNCHANGED <<isReady, stroke, feat, call, hist>>
  /\ UNCHANGED boardVars

\* the timer fires: this.isReady = true
InitializeDone ==
  /\ initPc = "waiting"
  /\ initPc' = "done"
  /\ isReady' = TRUE
  /\ hist' = [hist EXCEPT !.sinceInit = None]
  /\ UNCHANGED <<stroke, feat, call>>
  /\ UNCHANGED boardVars

\* the drawing surface completes another stroke
NewStroke ==
  /\ call.fn = "recognizeShape"
  /\ \E id \in StrokeIds : stroke' = id
  /\ call' = NoCall
  /\ hist' = NoHist
  /\ UNCHANGED <<isReady, initPc, feat>>
  /\ UNCHANGED boardVars

ExtractFeatures ==
  /\ call' = [fn |-> "extractFeatures", type |-> "", ready |-> isReady,
              ret |-> extractFeaturesOn[stroke],
              calls |-> <<Call("extractFeatures", extractFeaturesOn[stroke])>>]
  /\ hist' = IF hist.features = None
               THEN [hist EXCEPT !.features = Some(extractFeaturesOn[stroke])]
               ELSE hist
  /\ UNCHANGED <<isReady, initPc, stroke, feat>>
  /\ UNCHANGED boardVars

\* predictProbs on the Feature Record of the stroke
PredictProbs ==
  /\ extractFeaturesOn[stroke] # Null
  /\ LET probs == predictProbsOn[stroke]
     IN call' = [fn |-> "predictProbs", type |-> "", ready |-> isReady,
                 ret |-> probs,
                 calls |-> <<Call("predictProbs", probs)>>]
  /\ UNCHANGED <<isReady, initPc, stroke, feat, hist>>
  /\ UNCHANGED boardVars

\* a heuristicRecognize that marks the recogniser ready as it runs
HeuristicRecognize_SetsReady ==
  /\ call' = [fn |-> "heuristicRecognize", type |-> "", ready |-> isReady,
              ret |-> heuristicRunOn[stroke].ret,
              calls |-> heuristicRunOn[stroke].calls]
  /\ isReady' = TRUE
  /\ UNCHANGED <<initPc, stroke, feat, hist>>
  /\ UNCHANGED boardVars

HeuristicRecognize ==
  /\ call' = [fn |-> "heuristicRecognize", type |-> "", ready |-> isReady,
              ret |-> heuristicRunOn[stroke].ret,
              calls |-> heuristicRunOn[stroke].calls]
  /\ UNCHANGED <<isReady, initPc, stroke, feat, hist>>
  /\ UNCHANGED boardVars

ConvertToShape ==
  /\ \E t \in ConvertTypes :
       call' = [fn |-> "convertToShape", type |-> t, ready |-> isReady,
                ret |-> convertRunOn[stroke][t].ret,
                calls |-> convertRunOn[stroke][t].calls]
  /\ UNCHANGED <<isReady, initPc, stroke, feat, hist>>
  /\ UNCHANGED boardVars

\* a recognizeShape that completes the initialisation itself
RecognizeShape_SelfInit ==
  /\ LET r == recognizeRunOn[stroke][isReady]
     IN /\ call' = [fn |-> "recognizeShape", type |-> "", ready |-> isReady,
                    ret |-> r.ret, calls |-> r.calls]
        /\ hist' = [hist EXCEPT
                      !.first = IF @ = None THEN Some(r.ret) ELSE @,
                      !.sinceInit = IF @ = None THEN Some(r.ret) ELSE @]
  /\ isReady' = TRUE
  /\ UNCHANGED <<initPc, stroke, feat>>
  /\ UNCHANGED boardVars

RecognizeShape ==
  /\ LET r == recognizeRunOn[stroke][isReady]
     IN /\ call' = [fn |-> "recognizeShape", type |-> "", ready |-> isReady,
                    ret |-> r.ret, calls |-> r.calls]
        /\ hist' = [hist EXCEPT
                      !.first = IF @ = None THEN Some(r.ret) ELSE @,
                      !.sinceInit = IF @ = None THEN Some(r.ret) ELSE @]
  /\ UNCHANGED <<isReady, initPc, stroke, feat>>
  /\ UNCHANGED boardVars

Next ==
  \/ InitializeStart
  \/ InitializeDone
  \/ NewStroke
  \/ ExtractFeatures
  \/ PredictProbs
  \/ HeuristicRecognize
  \/ ConvertToShape
  \/ RecognizeShape

Spec == Init /\ [][Next]_vars

----------------------------------------------------------------------------
(* predictProbs as a function of the Feature Record alone *)

InitFeat ==
  /\ isReady = FALSE
  /\ initPc = "idle"
  /\ stroke = EmptyStroke
  /\ feat \in FeatureGrid
  /\ call = NoCall
  /\ hist = NoHist
  /\ InitBoardVars

PredictProbsFeat ==
  /\ call.fn = "none"
  /\ LET probs == predictProbs(feat)
     IN call' = [fn |-> "predictProbs", type |-> "", ready |-> isReady,
                 ret |-> probs,
                 calls |-> <<Call("predictProbs", probs)>>]
  /\ UNCHANGED <<isReady, initPc, stroke, feat, hist>>
  /\ UNCHANGED boardVars

\* the rule checks of heuristicRecognize on the Feature Record the caller
\* holds; ret is the type of the shape returned, "null" when no rule fires
HeuristicRulesFeat ==
  /\ call.fn = "none"
  /\ LET class == heuristicClass(feat)
     IN call' = [fn |-> "heuristicRecognize", type |-> "", ready |-> isReady,
                 ret |-> class,
                 calls |-> <<[fn |-> "heuristicRecognize", ok |-> class # "null"]>>]
  /\ UNCHANGED <<isReady, initPc, stroke, feat, hist>>
  /\ UNCHANGED boardVars

NextFeat == PredictProbsFeat \/ HeuristicRulesFeat

SpecFeat == InitFeat /\ [][NextFeat]_vars

----------------------------------------------------------------------------
(* The Whiteboard component driving the recogniser *)

MaxElements == 1   \* most strokes the local user draws on the board
MaxDropped == 1    \* most shapes the local user drops on the board

pencilSize == 3    \* useState(3); the size slider is left alone
eraserSize == 6    \* useState(6)
EraserColor == "#ffffff"
PenColors == {"#000000", "#ff0000"}

\* the figures the pointer draws on the board: a line of 19 points and a
\* square of 17 points
BoardStrokes ==
  {id \in 1..NumDrawn :
     \/ Figures[figOf(id)].name = "line" /\ segOf(id) = 3 /\ scaleOf(id) = 3
     \/ Figures[figOf(id)].name = "square" /\ segOf(id) = 4 /\ scaleOf(id) = 2}

recVars == <<stroke, feat, call, hist>>

\* the points that peers send; the local pointer never goes there
RemoteStart == <<300, 300>>
RemoteMove == <<310, 300>>
IsLocalPoint(p) == p # RemoteStart /\ p # RemoteMove

IsStroke(el) == el.type \in {"freehand", "eraser"}

\* who created the elements
Created(by) == {i \in DOMAIN origin : origin[i].owner = by}
Drawn == {i \in Created("local") : origin[i].drawn}

\* the local pointer positions that reached the elements i.. of the board
RECURSIVE localTrail(_, _)
localTrail(els, i) ==
  IF i > Len(els) THEN <<>>
  ELSE (IF IsStroke(els[i]) THEN SelectSeq(els[i].points, IsLocalPoint) ELSE <<>>)
         \o localTrail(els, i + 1)

\* where the pointer can go next: on along a figure that it has followed
\* since the last mouse-down
NextPositions ==
  LET downs == {i \in Drawn : IsStroke(elements[i])}
  IN IF downs = {} THEN {}
     ELSE LET lastDown == CHOOSE i \in downs : \A j \in downs : j <= i
              pts == localTrail(elements, lastDown)
              n == Len(pts)
          IN {pointsOn[id][n + 1] :
                id \in {i \in BoardStrokes :
                          /\ n < Len(pointsOn[i])
                          /\ pts = SubSeq(pointsOn[i], 1, n)}}

\* useEffect: aiShapeRecognition.initialize() is called on mount
AiInitEffect ==
  /\ ~crashed
  /\ initPc = "idle"
  /\ InitializeStart

\* the effect resumes after its await: setAiModelLoaded(true)
SetAiModelLoaded ==
  /\ ~crashed
  /\ initPc = "done"
  /\ ~aiModelLoaded
  /\ aiModelLoaded' = TRUE
  /\ UNCHANGED <<isReady, initPc, elements, isDrawing, isErasing, currentTool, mouseUp,
                 selectedColor, emitted, origin, crashed>>
  /\ UNCHANGED recVars

\* the element that handleMouseDown creates at pos; Date.now() is taken as
\* the number of elements created so far
newStroke(pos) ==
  [id |-> Len(elements) + 1,
   type |-> IF isErasing THEN "eraser" ELSE "freehand",
   points |-> <<pos>>,
   color |-> IF isErasing THEN EraserColor ELSE selectedColor,
   strokeWidth |-> IF isErasing THEN eraserSize ELSE pencilSize]

handleMouseDown ==
  /\ ~crashed
  /\ Cardinality(Drawn) < MaxElements
  /\ IF currentTool = "select" THEN UNCHANGED vars
     ELSE \E id \in BoardStrokes :
            /\ isDrawing' = TRUE
            /\ elements' = Append(elements, newStroke(pointsOn[id][1]))
            /\ origin' = Append(origin, [owner |-> "local", drawn |-> TRUE, moved |-> 0])
            /\ emitted' = Emit("DRAW_START", newStroke(pointsOn[id][1]), Null, "")
            /\ mouseUp' = NoMouseUp
            /\ UNCHANGED <<isReady, initPc, aiModelLoaded, isErasing, currentTool,
                           selectedColor, crashed>>
            /\ UNCHANGED recVars

\* the updater that handleMouseMove gives to setElements
mouseMoveUpdate(prev, pos) ==
  IF prev = <<>> THEN prev
  ELSE IF IsStroke(prev[Len(prev)])
    THEN [prev EXCEPT ![Len(prev)] =
            [@ EXCEPT !.points = Append(@, pos),
                      !.color = IF isErasing THEN EraserColor ELSE selectedColor]]
    ELSE prev

handleMouseMove ==
  /\ ~crashed
  /\ \E pos \in NextPositions :
       IF (currentTool # "pencil" /\ currentTool # "eraser") \/ ~isDrawing
         THEN UNCHANGED vars
         ELSE /\ elements' = mouseMoveUpdate(elements, pos)
              /\ emitted' = Emit("DRAW_MOVE", Null, pos,
                                 IF isErasing THEN EraserColor ELSE selectedColor)
              /\ UNCHANGED <<isReady, initPc, aiModelLoaded, isDrawing, isErasing,
                             currentTool, mouseUp, selectedColor, origin, crashed>>
              /\ UNCHANGED recVars

\* a replacement drawn in the pen colour of the moment
newShape_PenColor(lastElement, recognized) ==
  [color |-> selectedColor, strokeWidth |-> lastElement.strokeWidth]
    @@ recognized @@ [id |-> lastElement.id]

\* { id: lastElement.id, ...recognized, color, strokeWidth }: a later key
\* replaces an earlier one
newShape(lastElement, recognized) ==
  [color |-> lastElement.color, strokeWidth |-> lastElement.strokeWidth]
    @@ recognized @@ [id |-> lastElement.id]

\* the updater that handleMouseUp gives to setElements, and what it did
mouseUpUpdate(prev) ==
  IF prev = <<>>
    THEN [elements |-> prev, log |-> [NoMouseUp EXCEPT !.fn = "handleMouseUp"]]
  ELSE
    LET lastElement == prev[Len(prev)]
    IN IF lastElement.type # "freehand" \/ Len(lastElement.points) < 6
         THEN [elements |-> prev,
               log |-> [NoMouseUp EXCEPT !.fn = "handleMouseUp",
                                         !.freehand = lastElement.type = "freehand",
                                         !.n = IF lastElement.type = "freehand"
                                                 THEN Len(lastElement.points) ELSE 0]]
         ELSE
           LET aiResult == IF aiModelLoaded
                             THEN recognizeShape(isReady, lastElement.points)
                             ELSE Null
               recognized == IF aiResult = Null THEN Null ELSE aiResult.features
           IN [elements |-> IF recognized = Null THEN prev
                            ELSE [prev EXCEPT ![Len(prev)] =
                                    newShape(lastElement, recognized)],
               log |-> [fn |-> "handleMouseUp", freehand |-> TRUE,
                        n |-> Len(lastElement.points), ready |-> isReady,
                        submitted |-> aiModelLoaded, ret |-> aiResult]]

handleMouseUp ==
  /\ ~crashed
  /\ IF (currentTool # "pencil" /\ currentTool # "eraser") \/ ~isDrawing
       THEN UNCHANGED vars
       ELSE LET u == mouseUpUpdate(elements)
            IN /\ isDrawing' = FALSE
               /\ elements' = u.elements
               /\ mouseUp' = u.log
               /\ emitted' = Emit("DRAW_END", Null, Null, "")
               /\ UNCHANGED <<isReady, initPc, aiModelLoaded, isErasing, currentTool,
                              selectedColor, origin, crashed>>
               /\ UNCHANGED recVars

\* the eraser button
handleErase ==
  /\ ~crashed
  /\ currentTool' = "eraser"
  /\ isErasing' = TRUE
  /\ isDrawing' = FALSE
  /\ UNCHANGED <<isReady, initPc, aiModelLoaded, elements, mouseUp,
                 selectedColor, emitted, origin, crashed>>
  /\ UNCHANGED recVars

\* the pencil button
handleDraw ==
  /\ ~crashed
  /\ currentTool' = "pencil"
  /\ isErasing' = FALSE
  /\ isDrawing' = FALSE
  /\ UNCHANGED <<isReady, initPc, aiModelLoaded, elements, mouseUp,
                 selectedColor, emitted, origin, crashed>>
  /\ UNCHANGED recVars

handleColorSelect ==
  /\ ~crashed
  /\ \E color \in PenColors : selectedColor' = color
  /\ isErasing' = FALSE
  /\ isDrawing' = FALSE
  /\ UNCHANGED <<isReady, initPc, aiModelLoaded, elements, currentTool, mouseUp,
                 emitted, origin, crashed>>
  /\ UNCHANGED recVars

\* the select button: onClick={() => setCurrentTool("select")}
SelectTool ==
  /\ ~crashed
  /\ currentTool' = "select"
  /\ UNCHANGED <<isReady, initPc, aiModelLoaded, elements, isDrawing, isErasing, mouseUp,
                 selectedColor, emitted, origin, crashed>>
  /\ UNCHANGED recVars

\* the parent clears the board through the ref: setElements([]) and
\* socket.emit(CLEAR_BOARD)
ClearBoard ==
  /\ ~crashed
  /\ elements' = <<>>
  /\ origin' = <<>>
  /\ emitted' = Emit("CLEAR_BOARD", Null, Null, "")
  /\ UNCHANGED <<isReady, initPc, aiModelLoaded, isDrawing, isErasing, currentTool, mouseUp,
                 selectedColor, crashed>>
  /\ UNCHANGED recVars

\* where the palette shapes are dropped, and their size (in units of 1/16,
\* as the canonical shapes)
DropAt == <<60, 60>>
baseSize == 120

\* the element that handleShapeDrop creates for a circle or a triangle; id
\* stands for Date.now()
droppedShape(id, shapeType, x, y) ==
  IF shapeType = "circle"
    THEN [id |-> id, type |-> "circle",
          x |-> 16 * x, y |-> 16 * y, radius |-> 16 * (baseSize \div 2),
          color |-> selectedColor, strokeWidth |-> pencilSize]
    ELSE [id |-> id, type |-> "triangle",
          points |-> <<16 * (x - baseSize \div 2), 16 * (y + baseSize \div 2),
                       16 * (x + baseSize \div 2), 16 * (y + baseSize \div 2),
                       16 * x, 16 * (y - baseSize \div 2)>>,
          color |-> selectedColor, strokeWidth |-> pencilSize]

\* a palette shape is dropped on the canvas
handleShapeDrop ==
  /\ ~crashed
  /\ Cardinality(Created("local") \ Drawn) < MaxDropped
  /\ \E shapeType \in {"circle", "triangle"} :
       /\ elements' = Append(elements, droppedShape(Len(elements) + 1, shapeType, DropAt[1], DropAt[2]))
       /\ origin' = Append(origin, [owner |-> "local", drawn |-> FALSE, moved |-> 0])
       /\ emitted' = Emit("DRAW_START", droppedShape(Len(elements) + 1, shapeType, DropAt[1], DropAt[2]),
                          Null, "")
  /\ UNCHANGED <<isReady, initPc, aiModelLoaded, isDrawing, isErasing, currentTool, mouseUp,
                 selectedColor, crashed>>
  /\ UNCHANGED recVars

InitBoard ==
  /\ isReady = FALSE
  /\ initPc = "idle"
  /\ stroke = EmptyStroke
  /\ feat = Null
  /\ call = NoCall
  /\ hist = NoHist
  /\ InitBoardVars

NextBoard ==
  \/ AiInitEffect
  \/ InitializeDone
  \/ SetAiModelLoaded
  \/ handleMouseDown
  \/ handleMouseMove
  \/ handleMouseUp
  \/ handleErase
  \/ handleDraw
  \/ handleColorSelect
  \/ SelectTool
  \/ ClearBoard
  \/ handleShapeDrop

SpecBoard == InitBoard /\ [][NextBoard]_vars

----------------------------------------------------------------------------
(* The Whiteboard in a room: the socket listeners run between the local    *)
(* handlers.  A peer sends one kind of stroke and one dropped circle.      *)

MaxRemote == 1        \* most elements the peers start
MaxRemoteMoves == 1   \* most DRAW_MOVE points the peers send to one element

RemoteElements ==
  { [id |-> 101, type |-> "freehand", points |-> <<RemoteStart>>,
     color |-> "#0000ff", strokeWidth |-> pencilSize],
    [id |-> 102, type |-> "circle", x |-> 16 * 200, y |-> 16 * 200,
     radius |-> 16 * (baseSize \div 2), color |-> "#0000ff",
     strokeWidth |-> pencilSize] }

\* socket.on(DRAW_START): setElements((prev) => [...prev, element])
handleRemoteDrawStart ==
  /\ ~crashed
  /\ Cardinality(Created("remote")) < MaxRemote
  /\ \E element \in RemoteElements : elements' = Append(elements, element)
  /\ origin' = Append(origin, [owner |-> "remote", drawn |-> FALSE, moved |-> 0])
  /\ UNCHANGED <<isReady, initPc, aiModelLoaded, isDrawing, isErasing, currentTool,
                 mouseUp, selectedColor, emitted, crashed>>
  /\ UNCHANGED recVars

\* socket.on(DRAW_MOVE): the updater spreads the points of the last element,
\* which throws a TypeError when the element has none
handleRemoteDrawMove ==
  /\ ~crashed
  /\ elements # <<>> => origin[Len(elements)].moved < MaxRemoteMoves
  /\ IF elements = <<>> THEN UNCHANGED vars
     ELSE IF "points" \notin DOMAIN elements[Len(elements)]
       THEN /\ crashed' = TRUE
            /\ UNCHANGED <<isReady, initPc, aiModelLoaded, elements, isDrawing,
                           isErasing, currentTool, mouseUp, selectedColor, emitted,
                           origin>>
            /\ UNCHANGED recVars
       ELSE /\ elements' = [elements EXCEPT
                              ![Len(elements)].points = Append(@, RemoteMove)]
            /\ origin' = [origin EXCEPT ![Len(elements)].moved = @ + 1]
            /\ UNCHANGED <<isReady, initPc, aiModelLoaded, isDrawing, isErasing,
                           currentTool, mouseUp, selectedColor, emitted, crashed>>
            /\ UNCHANGED recVars

\* socket.on(CLEAR_BOARD): setElements([])
handleClearBoard ==
  /\ ~crashed
  /\ elements' = <<>>
  /\ origin' = <<>>
  /\ UNCHANGED <<isReady, initPc, aiModelLoaded, isDrawing, isErasing, currentTool,
                 mouseUp, selectedColor, emitted, crashed>>
  /\ UNCHANGED recVars

\* the room once the AI init effect has run to its end
InitRoom ==
  /\ isReady = TRUE
  /\ initPc = "done"
  /\ stroke = EmptyStroke
  /\ feat = Null
  /\ call = NoCall
  /\ hist = NoHist
  /\ aiModelLoaded = TRUE
  /\ elements = <<>>
  /\ isDrawing = FALSE
  /\ isErasing = FALSE
  /\ currentTool = "pencil"
  /\ mouseUp = NoMouseUp
  /\ selectedColor = "#000000"
  /\ emitted = NoEvent
  /\ origin = <<>>
  /\ crashed = FALSE

\* the pointer, the palette and the peers; the tool buttons are left alone
NextRoom ==
  \/ handleMouseDown
  \/ handleMouseMove
  \/ handleMouseUp
  \/ handleShapeDrop
  \/ handleRemoteDrawStart
  \/ handleRemoteDrawMove
  \/ handleClearBoard

SpecRoom == InitRoom /\ [][NextRoom]_vars

----------------------------------------------------------------------------
(* handleMouseUp as a function of the board it finds *)

MaxBoard == 2   \* most elements of these boards

\* a stroke of the first n points of the stroke id
strokeElement(id, n, type, color) ==
  [id |-> 7, type |-> type, points |-> SubSeq(pointsOn[id], 1, n),
   color |-> color,
   strokeWidth |-> IF type = "eraser" THEN eraserSize ELSE pencilSize]

\* elements that the handlers put on a board: whole and unfinished
\* strokes of the pencil and of the eraser, dropped shapes, a peer's
\* elements
BoardElements ==
  {strokeElement(id, Len(pointsOn[id]), "freehand", c) :
     id \in BoardStrokes, c \in PenColors}
  \cup {strokeElement(id, n, "freehand", "#000000") :
          id \in BoardStrokes, n \in {5, 6}}
  \cup {strokeElement(id, Len(pointsOn[id]), "eraser", EraserColor) :
          id \in BoardStrokes}
  \cup {droppedShape(8, t, DropAt[1], DropAt[2]) : t \in {"circle", "triangle"}}
  \cup RemoteElements

RECURSIVE Boards(_)
Boards(n) ==
  IF n = 0 THEN {<<>>}
  ELSE Boards(n - 1)
         \cup {Append(b, e) : b \in {x \in Boards(n - 1) : Len(x) = n - 1},
                               e \in BoardElements}

InitMouseUp ==
  /\ isReady \in BOOLEAN
  /\ initPc = IF isReady THEN "done" ELSE "waiting"
  /\ stroke = EmptyStroke
  /\ feat = Null
  /\ call = NoCall
  /\ hist = NoHist
  /\ aiModelLoaded \in {FALSE, isReady}
  /\ selectedColor = "#000000"
  /\ elements \in Boards(MaxBoard)
  /\ isDrawing \in BOOLEAN
  /\ isErasing = FALSE
  /\ currentTool \in {"pencil", "eraser", "select"}
  /\ mouseUp = NoMouseUp
  /\ emitted = NoEvent
  /\ origin = [i \in DOMAIN elements |->
                 [owner |-> "local", drawn |-> IsStroke(elements[i]), moved |-> 0]]
  /\ crashed = FALSE

NextMouseUp == handleMouseUp

SpecMouseUp == InitMouseUp /\ [][NextMouseUp]_vars

----------------------------------------------------------------------------
(* Properties *)

\* positions in the call list of the last call where fn was called
CallsOf(fn) == {i \in DOMAIN call.calls : call.calls[i].fn = fn}

\* the raw points of the stroke at hand, and whether there are n of them
points == pointsOn[stroke]
HasPoints(n) == points # Null /\ Len(points) >= n

\* C1: recognizeShape tries the Classifier, then the heuristic, then gives
\* up: heuristicRecognize is called (once, after predictProbs) exactly when
\* the recogniser is not ready, extractFeatures gave no record or
\* predictProbs gave no decision; it is not called when predictProbs
\* returned probabilities; and when it finds nothing the result is null.
C1_StrategyOrder ==
  call.fn = "recognizeShape" =>
    LET f == extractFeaturesOn[stroke]
        classified == call.ready /\ f # Null /\ predictProbsOn[stroke] # Null
        heur == CallsOf("heuristicRecognize")
    IN /\ (heur # {}) <=> ~classified
       /\ Cardinality(heur) <= 1
       /\ CallsOf("predictProbs") # {} <=> (call.ready /\ f # Null)
       /\ \A i \in heur : \A j \in CallsOf("predictProbs") : j < i
       /\ \A i \in heur : ~call.calls[i].ok => call.ret = Null

\* the Classifier ran, declined, and the heuristic found nothing either
C1_Witness ==
  /\ call.fn = "recognizeShape"
  /\ \E j \in CallsOf("predictProbs") : ~call.calls[j].ok
  /\ \E i \in CallsOf("heuristicRecognize") : ~call.calls[i].ok
  /\ call.ret = Null

\* C2: predictProbs returns null whenever the largest softmax probability
\* is below 0.6, and a recognizeShape result whose class came from the
\* Classifier has confidence at least 0.6.
C2_ConfidenceGate ==
  /\ call.fn = "predictProbs" =>
       LET probs == softmax(logitsOf(extractFeaturesOn[stroke]))
       IN SeqMax(probs, 1, probs[1]) < 6000 => call.ret = Null
  /\ (call.fn = "recognizeShape"
        /\ \E j \in CallsOf("predictProbs") : call.calls[j].ok) =>
       call.ret # Null /\ call.ret.confidence >= 6000

\* a Classifier decision just above the gate
C2_Witness ==
  /\ call.fn = "recognizeShape"
  /\ \E j \in CallsOf("predictProbs") : call.calls[j].ok
  /\ call.ret.confidence < 6500

\* C3: a stroke with fewer than 15 raw points, or no stroke, is never
\* recognised, ready or not, and no call of extractFeatures made for it
\* returns a Feature Record; the Classifier is not reached.
C3_ShortStroke ==
  ~HasPoints(15) =>
    /\ call.fn \in {"recognizeShape", "extractFeatures", "heuristicRecognize",
                    "convertToShape"} => call.ret = Null
    /\ \A i \in CallsOf("extractFeatures") : ~call.calls[i].ok
    /\ CallsOf("predictProbs") = {}

\* a stroke of 10..14 points given to a ready recogniser
C3_Witness ==
  /\ HasPoints(10)
  /\ ~HasPoints(15)
  /\ call.fn = "recognizeShape"
  /\ call.ready
  /\ call.ret = Null

\* C4: a result of recognizeShape is null or carries one of the seven class
\* labels, a confidence in [0,1] and a canonical shape with the same tag.
C4_ResultShape ==
  (call.fn = "recognizeShape" /\ call.ret # Null) =>
    /\ \E i \in 1..7 : call.ret.type = shapeClasses[i]
    /\ call.ret.confidence >= 0
    /\ call.ret.confidence <= 10000
    /\ call.ret.features # Null
    /\ call.ret.features.type = call.ret.type

\* the Classifier decided square
C4_Witness ==
  /\ call.fn = "recognizeShape"
  /\ call.ready
  /\ call.ret.type = "square"
  /\ call.ret.confidence > 6000

C6_FallbackBeforeReady ==
  (mouseUp.fn = "handleMouseUp" /\ mouseUp.freehand /\ mouseUp.n >= 15
     /\ ~mouseUp.ready) =>
    /\ mouseUp.submitted
    /\ mouseUp.ret # Null => mouseUp.ret.confidence = HeuristicConfidence

\* C7: for each class, a corner count farther from the class's expected
\* count never gives a higher score, the other features being equal.
ExpectedCorners == <<0, 0, 4, 4, 3, 6, 5>>   \* in the order of shapeClasses

C7_CornerMonotone ==
  call.fn = "predictProbs" =>
    LET z == Tup([c \in 1..(MaxCorners + 1) |->
                    logitsOf([feat EXCEPT !.corners = c - 1])])
    IN \A cls \in 1..7 : \A c1, c2 \in 0..MaxCorners :
         Abs(c1 - ExpectedCorners[cls]) <= Abs(c2 - ExpectedCorners[cls])
           => z[c2 + 1][cls] <= z[c1 + 1][cls]

\* predictProbs ran on a closed record with two corners
C7_Witness ==
  /\ call.fn = "predictProbs"
  /\ feat # Null
  /\ feat.corners = 2
  /\ feat.isClosed = 1

\* C8: the cleaned points start with the first raw point, are a
\* subsequence of the raw points, are pairwise-consecutively more than 2
\* apart, and a raw point is dropped exactly when it is within 2 of the
\* last point kept before it.
C8_CleanedPoints ==
  (call.fn = "extractFeatures" /\ HasPoints(15)) =>
    LET idx == cleanIndices(points, 2, <<1>>)
        clean == cleanPoints(points)
        kept == {idx[j] : j \in 1..Len(idx)}
        lastKept(i) == CHOOSE m \in kept : m < i /\ \A q \in kept : q < i => q <= m
    IN /\ clean[1] = points[1]
       /\ Len(clean) = Len(idx)
       /\ Len(clean) <= Len(points)
       /\ \A j \in 1..Len(idx) : idx[j] \in 1..Len(points) /\ clean[j] = points[idx[j]]
       /\ \A j \in 1..(Len(idx) - 1) : idx[j] < idx[j + 1]
       /\ \A j \in 1..(Len(clean) - 1) :
            Dist2(clean[j + 1][1] - clean[j][1], clean[j + 1][2] - clean[j][2]) > 4
       /\ \A i \in 2..Len(points) :
            (i \in kept) <=>
              Dist2(points[i][1] - points[lastKept(i)][1],
                    points[i][2] - points[lastKept(i)][2]) > 4

\* a stroke sampled so finely that one point is dropped and another is
\* kept although it is within 2 of the raw point before it
C8_Witness ==
  /\ call.fn = "extractFeatures"
  /\ HasPoints(15)
  /\ LET idx == cleanIndices(points, 2, <<1>>)
         kept == {idx[j] : j \in 1..Len(idx)}
     IN /\ \E i \in 2..Len(points) : i \notin kept
        /\ \E i \in kept :
             /\ i >= 2
             /\ Dist2(points[i][1] - points[i - 1][1],
                      points[i][2] - points[i - 1][2]) <= 4

\* C9: extractFeatures returns a Feature Record exactly when the stroke has
\* at least 15 raw points, at least 10 cleaned points, and is not a closed
\* stroke less than 15 wide or less than 15 high.
C9_FeatureGates ==
  call.fn = "extractFeatures" =>
    (call.ret # Null <=>
       /\ HasPoints(15)
       /\ LET clean == cleanPoints(points)
              n == Len(clean)
              xs == {clean[j][1] : j \in 1..n}
              ys == {clean[j][2] : j \in 1..n}
              w == (CHOOSE x \in xs : \A y \in xs : y <= x)
                     - (CHOOSE x \in xs : \A y \in xs : x <= y)
              h == (CHOOSE x \in ys : \A y \in ys : y <= x)
                     - (CHOOSE x \in ys : \A y \in ys : x <= y)
              m == IF w < h THEN w ELSE h
              \* start-end distance below 0.15 of the smaller side
              closed == 400 * Dist2(clean[1][1] - clean[n][1],
                                    clean[1][2] - clean[n][2]) < 9 * m * m
          IN n >= 10 /\ ~(closed /\ (w < 15 \/ h < 15)))

\* a closed stroke with enough points but too small a footprint
C9_Witness ==
  /\ call.fn = "extractFeatures"
  /\ call.ret = Null
  /\ HasPoints(15)
  /\ Len(cleanPoints(points)) >= 10

C11_PerfectSquare ==
  stroke \in SquareIds =>
    /\ call.fn = "extractFeatures" =>
         /\ call.ret # Null
         /\ call.ret.corners = 4
         /\ call.ret.rightAngleScore > 900
         /\ call.ret.squareness > 900
    /\ (call.fn = "recognizeShape" /\ call.ready) =>
         call.ret # Null /\ call.ret.type = "square"

\* C12: a stroke of 64 points (to the nearest unit) on the circle of radius
\* 100 about (0,0) has circularity > 0.95 and no corners, recognizeShape
\* classifies it as a circle, and the radius of the canonical circle is
\* within 1% of 100.
C12_PerfectCircle ==
  stroke \in CircleIds =>
    /\ call.fn = "extractFeatures" =>
         /\ call.ret # Null
         /\ call.ret.circularity > 950
         /\ call.ret.corners = 0
    /\ call.fn = "recognizeShape" =>
         /\ call.ret # Null
         /\ call.ret.type = "circle"
         /\ call.ret.features.type = "circle"
         /\ Abs(call.ret.features.radius - 1600) <= 16

\* a ready recogniser whose Classifier declined the circle and whose
\* fallback recognised it
C12_Witness ==
  /\ stroke \in CircleIds
  /\ call.fn = "recognizeShape"
  /\ call.ready
  /\ \E j \in CallsOf("predictProbs") : ~call.calls[j].ok
  /\ call.ret.type = "circle"

\* C13 as claimed: one recognizeShape call produces the Feature Record once
\* (extractFeatures runs at most once), and runs the Classifier at most once
\* and the heuristic fallback at most once.
C13_OneFeatureRecord ==
  call.fn = "recognizeShape" =>
    /\ Cardinality(CallsOf("extractFeatures")) <= 1
    /\ Cardinality(CallsOf("predictProbs")) <= 1
    /\ Cardinality(CallsOf("heuristicRecognize")) <= 1

C15_ClosedStartCorner ==
  (/\ call.fn = "extractFeatures"
   /\ stroke \in SquareIds
   /\ points[1] \in {<<0, 0>>, <<200, 0>>}
   /\ call.ret # Null
   /\ call.ret.isClosed = 1) =>
    LET sm == smooth(cleanPoints(points), call.ret.isClosed)
        found == detectCorners(sm, call.ret.isClosed, call.ret.width, call.ret.height)
    IN \E k \in 1..Len(found) :
          \/ found[k].idx < lookaheadOf(Len(sm))
          \/ found[k].idx >= Len(sm) - lookaheadOf(Len(sm))

\* C16 as claimed: predictProbs never puts its largest probability on
\* square or rectangle for a Feature Record whose corner count is not 4.
C16_SquareNeedsFourCorners ==
  (call.fn = "predictProbs" /\ call.ret # Null /\ feat.corners # 4) =>
    shapeClasses[indexOfMax(call.ret)] \notin {"square", "rectangle"}

\* C17 as claimed: whatever the interleaving, a stroke on the board holds
\* only points of the user who started it (the local pointer's positions in
\* the local strokes, the peers' points in the peers' strokes), and
\* handleMouseUp submits to the recogniser a stroke that the local user
\* started.
C17_StrokeIntegrity ==
  [][/\ \A i \in DOMAIN elements' :
          IsStroke(elements'[i]) =>
            \A k \in DOMAIN elements'[i].points :
               IsLocalPoint(elements'[i].points[k]) <=> origin'[i].owner = "local"
     /\ (handleMouseUp /\ mouseUp'.submitted) =>
          origin[Len(elements)].owner = "local"]_vars

\* C18 as claimed: handleRemoteDrawMove never throws, and it leaves the
\* board as it is when the last element is not a stroke with a list of
\* [x, y] points.
C18_RemoteMoveSafe ==
  [][handleRemoteDrawMove =>
       /\ ~crashed'
       /\ (elements # <<>> /\ ~IsStroke(elements[Len(elements)]))
            => elements' = elements]_vars

\* C19: handleMouseUp keeps the length of the board and every element but
\* the last; it replaces the last element only when that is a freehand
\* stroke of at least 6 points for which recognizeShape returned a shape,
\* and the replacement is that shape with the id, color and strokeWidth of
\* the stroke.
C19_MouseUpFrame ==
  [][handleMouseUp =>
       LET n == Len(elements)
       IN /\ Len(elements') = n
          /\ \A i \in 1..(n - 1) : elements'[i] = elements[i]
          /\ (n > 0 /\ elements'[n] # elements[n]) =>
               /\ elements[n].type = "freehand"
               /\ Len(elements[n].points) >= 6
               /\ mouseUp'.ret # Null
               /\ mouseUp'.ret.features # Null
               /\ elements'[n].type = mouseUp'.ret.features.type
               /\ elements'[n].id = elements[n].id
               /\ elements'[n].color = elements[n].color
               /\ elements'[n].strokeWidth = elements[n].strokeWidth]_vars

\* a red stroke drawn after an eraser stroke has been replaced by a shape
C19_Witness ==
  /\ Len(elements) = 2
  /\ mouseUp.fn = "handleMouseUp"
  /\ mouseUp.ret # Null
  /\ elements[1].type = "eraser"
  /\ elements[2].type = mouseUp.ret.features.type
  /\ elements[2].color = "#ff0000"

\* C20 as claimed: when handleMouseUp replaces the stroke by the recognized
\* shape, the event it emits carries that shape.
C20_ShapeSent ==
  [][(handleMouseUp /\ elements' # elements) =>
       emitted'.element = elements'[Len(elements')]]_vars

\* C21 as claimed: minX, minY, maxX and maxY of a Feature Record are the
\* bounding box of the smoothed points (units of 1/16), the sequence that
\* startX/Y and endX/Y come from.
C21_SmoothedBox ==
  (call.fn = "extractFeatures" /\ call.ret # Null) =>
    LET sm == smooth(cleanPoints(points), call.ret.isClosed)
        xs == {sm[j][1] : j \in DOMAIN sm}
        ys == {sm[j][2] : j \in DOMAIN sm}
    IN /\ call.ret.startX = sm[1][1] /\ call.ret.startY = sm[1][2]
       /\ \A x \in xs : 16 * call.ret.minX <= x /\ x <= 16 * call.ret.maxX
       /\ 16 * call.ret.minX \in xs /\ 16 * call.ret.maxX \in xs
       /\ \A y \in ys : 16 * call.ret.minY <= y /\ y <= 16 * call.ret.maxY
       /\ 16 * call.ret.minY \in ys /\ 16 * call.ret.maxY \in ys

\* C22 as claimed: on every stroke with at least 3 corners, open or closed,
\* isConvex is false exactly when the cross products of consecutive
\* corner-edge vectors (corner vertices in order, wrapping) hold two
\* non-zero values of opposite sign.
C22_ConvexitySigns ==
  (call.fn = "extractFeatures" /\ call.ret # Null /\ call.ret.corners >= 3) =>
    LET sm == smooth(cleanPoints(points), call.ret.isClosed)
        found == detectCorners(sm, call.ret.isClosed, call.ret.width, call.ret.height)
        m == Len(found)
        v(k) == sm[found[((k - 1) % m) + 1].idx + 1]
        crossAt(k) ==
          (v(k + 1)[1] - v(k)[1]) * (v(k + 2)[2] - v(k + 1)[2])
            - (v(k + 1)[2] - v(k)[2]) * (v(k + 2)[1] - v(k + 1)[1])
        flip == \E j, k \in 1..m : crossAt(j) > 0 /\ crossAt(k) < 0
    IN (call.ret.isConvex = 0) <=> flip

\* C23: the rules of heuristicRecognize are mutually exclusive: at most one
\* rule condition holds for a Feature Record, and the class returned is that
\* rule's, whatever the order of the checks (no shape when none holds).
C23_RulesExclusive ==
  (call.fn = "heuristicRecognize" /\ feat \in FeatureGrid) =>
    /\ Cardinality(heuristicRules(feat)) <= 1
    /\ \A c \in heuristicRules(feat) : call.ret = c
    /\ heuristicRules(feat) = {} => call.ret = "null"

\* the square rule fires on a closed 4-corner record of right angles
C23_Witness ==
  /\ call.fn = "heuristicRecognize"
  /\ feat \in FeatureGrid
  /\ call.ret = "square"
  /\ heuristicRules(feat) = {"square"}

\* C24: every accepted corner turns by an absolute angle strictly between
\* pi/4 and 3*pi/4 (|sin| > |cos| of the angle between the segments
\* i-lookahead -> i and i -> i+lookahead of the smoothed points), and both
\* segments are at least 5 units long (smoothed points in units of 1/16).
C24_CornerAngleBand ==
  (call.fn = "extractFeatures" /\ call.ret # Null) =>
    LET sm == smooth(cleanPoints(points), call.ret.isClosed)
        look == lookaheadOf(Len(sm))
        found == detectCorners(sm, call.ret.isClosed, call.ret.width, call.ret.height)
    IN /\ Len(found) = call.ret.corners
       /\ Len(call.ret.cornerAngles) = call.ret.corners
       /\ \A k \in 1..Len(found) :
            LET i == found[k].idx
                ux == sm[i + 1][1] - sm[i - look + 1][1]
                uy == sm[i + 1][2] - sm[i - look + 1][2]
                wx == sm[i + look + 1][1] - sm[i + 1][1]
                wy == sm[i + look + 1][2] - sm[i + 1][2]
            IN /\ i >= look /\ i + look < Len(sm)
               /\ call.ret.cornerAngles[k].dot = ux * wx + uy * wy
               /\ call.ret.cornerAngles[k].cross = ux * wy - uy * wx
               /\ Abs(ux * wy - uy * wx) > Abs(ux * wx + uy * wy)
               /\ ux * ux + uy * uy >= 25 * 256
               /\ wx * wx + wy * wy >= 25 * 256

\* a record with accepted corners on a stroke where another sharp turn was
\* passed over because one of its segments is shorter than 5 units
C24_Witness ==
  /\ call.fn = "extractFeatures" /\ call.ret # Null
  /\ call.ret.corners >= 2
  /\ LET sm == smooth(cleanPoints(points), call.ret.isClosed)
         look == lookaheadOf(Len(sm))
         endLimit == IF call.ret.isClosed = 1 THEN Len(sm) ELSE Len(sm) - 1
     IN \E i \in look..(endLimit - look - 1) :
          LET ux == sm[i + 1][1] - sm[i - look + 1][1]
              uy == sm[i + 1][2] - sm[i - look + 1][2]
              wx == sm[i + look + 1][1] - sm[i + 1][1]
              wy == sm[i + look + 1][2] - sm[i + 1][2]
          IN /\ Abs(ux * wy - uy * wx) > Abs(ux * wx + uy * wy)
             /\ (ux * ux + uy * uy < 25 * 256 \/ wx * wx + wy * wy < 25 * 256)

\* C25: any two accepted corners of a Feature Record are at least
\* min(width, height)/6 apart (distance between their smoothed points), and
\* the accepted corner indices are strictly increasing.
C25_CornerSpacing ==
  (call.fn = "extractFeatures" /\ call.ret # Null) =>
    LET sm == smooth(cleanPoints(points), call.ret.isClosed)
        found == detectCorners(sm, call.ret.isClosed, call.ret.width, call.ret.height)
        side == Min(call.ret.width, call.ret.height)
    IN /\ Len(found) = call.ret.corners
       /\ \A j, k \in 1..Len(found) :
            j < k =>
              LET p == sm[found[j].idx + 1]
                  q == sm[found[k].idx + 1]
                  ex == p[1] - q[1]
                  ey == p[2] - q[2]
              IN /\ found[j].idx < found[k].idx
                 /\ 36 * (ex * ex + ey * ey) >= 256 * side * side

\* a record with several corners on a stroke where a further sharp turn with
\* long enough segments was dropped for being too close to an accepted one
C25_Witness ==
  /\ call.fn = "extractFeatures" /\ call.ret # Null
  /\ call.ret.corners >= 2
  /\ LET sm == smooth(cleanPoints(points), call.ret.isClosed)
         look == lookaheadOf(Len(sm))
         endLimit == IF call.ret.isClosed = 1 THEN Len(sm) ELSE Len(sm) - 1
         found == detectCorners(sm, call.ret.isClosed, call.ret.width, call.ret.height)
     IN \E i \in look..(endLimit - look - 1) :
          LET ux == sm[i + 1][1] - sm[i - look + 1][1]
              uy == sm[i + 1][2] - sm[i - look + 1][2]
              wx == sm[i + look + 1][1] - sm[i + 1][1]
              wy == sm[i + look + 1][2] - sm[i + 1][2]
          IN /\ Abs(ux * wy - uy * wx) > Abs(ux * wx + uy * wy)
             /\ ux * ux + uy * uy >= 25 * 256
             /\ wx * wx + wy * wy >= 25 * 256
             /\ \A k \in 1..Len(found) : found[k].idx # i

\* C26: every Feature Record has aspect >= 1, and its aspect and squareness
\* are finite numbers (ratios in 1/1000): the longer side of the bounding box
\* is never 0 and the shorter side is floored at 1 in the division, also when
\* the shorter side is 0.
C26_AspectAtLeastOne ==
  (call.fn = "extractFeatures" /\ call.ret # Null) =>
    LET long == Max(call.ret.width, call.ret.height)
        short == Min(call.ret.width, call.ret.height)
    IN /\ short >= 0 /\ long > 0
       /\ call.ret.aspect >= 1000
       /\ call.ret.aspect * Max(1, short) <= 1000 * long
       /\ 1000 * long < (call.ret.aspect + 1) * Max(1, short)
       /\ call.ret.squareness \in 0..1000
       /\ (short = 0 => call.ret.aspect = 1000 * long /\ call.ret.squareness = 0)

\* a record of a stroke drawn along a horizontal: the bounding box is flat
C26_Witness ==
  /\ call.fn = "extractFeatures" /\ call.ret # Null
  /\ Min(call.ret.width, call.ret.height) = 0
  /\ call.ret.aspect > 1000

\* C27 as claimed: every Feature Record carries cornerAngles and
\* cornerIndices, both of length corners, the k-th angle being the turn
\* measured at the k-th index of the smoothed points.
C27_ParallelCornerLists ==
  (call.fn = "extractFeatures" /\ call.ret # Null) =>
    /\ {"cornerAngles", "cornerIndices"} \subseteq DOMAIN call.ret
    /\ Len(call.ret.cornerAngles) = call.ret.corners
    /\ Len(call.ret.cornerIndices) = call.ret.corners
    /\ LET sm == smooth(cleanPoints(points), call.ret.isClosed)
           look == lookaheadOf(Len(sm))
       IN \A k \in 1..call.ret.corners :
            LET i == call.ret.cornerIndices[k]
                ux == sm[i + 1][1] - sm[i - look + 1][1]
                uy == sm[i + 1][2] - sm[i - look + 1][2]
                wx == sm[i + look + 1][1] - sm[i + 1][1]
                wy == sm[i + look + 1][2] - sm[i + 1][2]
            IN /\ call.ret.cornerAngles[k].dot = ux * wx + uy * wy
               /\ call.ret.cornerAngles[k].cross = ux * wy - uy * wx

\* C28: the smoothed sequence is two passes of 0.25/0.5/0.25 over the points
\* at offsets -2, 0, +2, the second pass reading the first pass's values;
\* neighbour indices wrap modulo n on a closed stroke and are clamped to
\* [0, n-1] on an open one; the length is that of the cleaned sequence.
\* Written out: 16 times a smoothed point is the sum, over a first hop a and
\* a second hop b, of weight(a) * weight(b) * cleaned point at hop(hop(i,a),b).
C28_TwoPassSmoother ==
  (call.fn = "extractFeatures" /\ call.ret # Null) =>
    LET clean == cleanPoints(points)
        n == Len(clean)
        sm == smooth(clean, call.ret.isClosed)
        hop(i, d) == IF call.ret.isClosed = 1 THEN (i + d + n) % n
                     ELSE Max(0, Min(n - 1, i + d))
        weight(d) == IF d = 0 THEN 2 ELSE 1
        tap(i, a, b, c) == weight(a) * weight(b) * clean[hop(hop(i, a), b) + 1][c]
        twice(i, c) ==
          tap(i, -2, -2, c) + tap(i, -2, 0, c) + tap(i, -2, 2, c)
            + tap(i, 0, -2, c) + tap(i, 0, 0, c) + tap(i, 0, 2, c)
            + tap(i, 2, -2, c) + tap(i, 2, 0, c) + tap(i, 2, 2, c)
    IN /\ Len(sm) = n
       /\ \A i \in 0..(n - 1) :
            sm[i + 1][1] = twice(i, 1) /\ sm[i + 1][2] = twice(i, 2)
       /\ call.ret.startX = twice(0, 1) /\ call.ret.startY = twice(0, 2)
       /\ call.ret.endX = twice(n - 1, 1) /\ call.ret.endY = twice(n - 1, 2)

\* the record of a closed stroke whose start point the smoother moved by
\* averaging it with points from the end of the stroke
C28_Witness ==
  /\ call.fn = "extractFeatures" /\ call.ret # Null
  /\ call.ret.isClosed = 1
  /\ <<call.ret.startX, call.ret.startY>> # <<16 * points[1][1], 16 * points[1][2]>>

\* C29: every canonical shape built for a stroke lies inside the bounding box
\* of the stroke's cleaned points: circle center +/- radius, the square, the
\* rectangle, every vertex of a triangle, pentagon or hexagon and both ends
\* of a line are within [minX, maxX] x [minY, maxY] (coordinates in 1/16).
C29_ShapeInsideBox ==
  LET shape == IF call.fn \in {"convertToShape", "heuristicRecognize"} THEN call.ret
               ELSE IF call.fn = "recognizeShape" /\ call.ret # Null
                 THEN call.ret.features
               ELSE Null
  IN shape # Null =>
       LET cleaned == cleanPoints(points)
           cx == {cleaned[j][1] : j \in DOMAIN cleaned}
           cy == {cleaned[j][2] : j \in DOMAIN cleaned}
           loX == 16 * (CHOOSE v \in cx : \A u \in cx : v <= u)
           hiX == 16 * (CHOOSE v \in cx : \A u \in cx : v >= u)
           loY == 16 * (CHOOSE v \in cy : \A u \in cy : v <= u)
           hiY == 16 * (CHOOSE v \in cy : \A u \in cy : v >= u)
           shapeX == IF "points" \in DOMAIN shape
                       THEN {shape.points[j] : j \in {k \in DOMAIN shape.points : k % 2 = 1}}
                     ELSE IF shape.type = "circle"
                       THEN {shape.x - shape.radius, shape.x + shape.radius}
                     ELSE IF shape.type = "square"
                       THEN {shape.x, shape.x + shape.side}
                     ELSE {shape.x, shape.x + shape.width}
           shapeY == IF "points" \in DOMAIN shape
                       THEN {shape.points[j] : j \in {k \in DOMAIN shape.points : k % 2 = 0}}
                     ELSE IF shape.type = "circle"
                       THEN {shape.y - shape.radius, shape.y + shape.radius}
                     ELSE IF shape.type = "square"
                       THEN {shape.y, shape.y + shape.side}
                     ELSE {shape.y, shape.y + shape.height}
       IN /\ shape.type \in ConvertTypes
          /\ \A v \in shapeX : loX <= v /\ v <= hiX
          /\ \A v \in shapeY : loY <= v /\ v <= hiY

\* recognizeShape returned a circle for a stroke whose bounding box is not
\* square: the circle touches the box on its shorter side only
C29_Witness ==
  /\ call.fn = "recognizeShape" /\ call.ret # Null
  /\ call.ret.features # Null
  /\ call.ret.features.type = "circle"
  /\ extractFeaturesOn[stroke].width # extractFeaturesOn[stroke].height

\* C30 as claimed: after any sequence of tool actions (pencil, eraser and
\* select buttons, colour selection) isErasing is true exactly when
\* currentTool is "eraser", and the stroke a mouse-down starts is an eraser
\* stroke exactly when the eraser is the active tool.
C30_ToolStateConsistent ==
  /\ isErasing <=> (currentTool = "eraser")
  /\ (isDrawing /\ elements # <<>> /\ IsStroke(elements[Len(elements)])) =>
       ((elements[Len(elements)].type = "eraser") <=> (currentTool = "eraser"))

====
